---- MODULE Spec2Model ----
(***************************************************************************)
(* State-machine model of the esp_psram driver (src/src/psram.rs).         *)
(*                                                                         *)
(* Every operation of the driver is one action.  An operation is a        *)
(* straight-line sequence of calls on the control line (try_set_low,       *)
(* try_set_high) and on the transport (try_transfer); each call may fail.  *)
(* The calls of one operation are recorded, in order, in last.log.         *)
(*                                                                         *)
(* Three specifications: Spec runs every operation against a device that   *)
(* is an input of the call; SpecStore follows write_slice and read_slice   *)
(* against one device that keeps its memory; SpecBurst follows init and    *)
(* set_burst against one device that keeps its burst state.                *)
(*                                                                         *)
(* Representation of integers: a u32 address is the record                 *)
(* [hi |-> bits 31:24, lo |-> bits 23:0]; a u64 is a sequence of four      *)
(* 16-bit words, most significant first.                                   *)
(***************************************************************************)
EXTENDS Integers, Sequences, FiniteSets, TLC

VARIABLES
    drv,    \* the driver instance: [live, freq, burst_length]
    cs,     \* the control line as the device sees it: "high" or "low"
    last,   \* the pending result of a call: operation, arguments, bus log, result
    dev,    \* the device followed across calls: memory, burst state
    written \* what the caller last wrote with success: [valid, address, buf]

vars == <<drv, cs, last, dev, written>>

(***************************************************************************)
(* Bounds of the model.                                                    *)
(***************************************************************************)
\* buffers reach MaxChunks full chunks plus one byte
MaxChunks == 2
\* calls of write_slice made against the device that keeps its memory
MaxWrites == 1

(***************************************************************************)
(* Program constants.                                                      *)
(***************************************************************************)
ChunkSize == 256
Opcode_Read == 3
Opcode_Write == 2
Opcode_ResetEnable == 102
Opcode_Reset == 153
Opcode_SetBurstLength == 192
Opcode_ReadID == 159
KGD_Good == 93
MfSignature == 13
IdMinLen == 10
EidBytes == 8
ReadIdLen == 14
ReadIdSkip == 4
TotalSize == 8388608
PageSize == 1024
StartAddress == 0

Byte == 256
Lo24 == 16777216

Freqs == {"ThreeThree", "EightyFour", "OneZeroFour", "OneThreeThree", "OneFourFour"}
BurstLengths == {"None", "ThirtyTwoByte", "OneKByte"}

(***************************************************************************)
(* Integer helpers.                                                        *)
(***************************************************************************)
\* Address(u32) from its two fields
Addr(hi, lo) == [hi |-> hi, lo |-> lo]

\* `x as u8` for the three shifts used in the command frames
AsU8(x) == x % Byte

\* address.0 as usize + c * 256, and the conversion back to u32.
\* The sum does not fit a u32 exactly when the carry leaves bits 31:24.
AddOffsetChunkIndex(address, off) ==
    LET lo == address.lo + (off \div ChunkSize)
        hi == address.hi + (lo \div Lo24)
    IN  [overflow |-> hi >= Byte,
         value    |-> Addr(hi % Byte, lo % Lo24)]
AddOffset(address, off) ==
    LET lo == address.lo + off
        hi == address.hi + (lo \div Lo24)
    IN  [overflow |-> hi >= Byte,
         value    |-> Addr(hi % Byte, lo % Lo24)]

\* the bytes [opcode, addr >> 16, addr >> 8, addr] of a command frame
CmdFrame(opcode, address) ==
    << opcode,
       AsU8(address.lo \div 65536),
       AsU8(address.lo \div 256),
       AsU8(address.lo) >>

Zeros(n) == [j \in 1..n |-> 0]

(***************************************************************************)
(* The device behind the transport.  It decodes the byte stream of one     *)
(* assertion window: after a read command it clocks out memory, after the  *)
(* read-id command (and three more bytes) its identification bytes; after  *)
(* a write command it stores the payload bytes at the addressed locations; *)
(* the command 0xC0 flips its burst state.                                 *)
(* Its memory is the fill pattern overlaid by the extents [lo, data]       *)
(* written so far, the latest last.                                        *)
(***************************************************************************)
RECURSIVE MemLookup(_, _, _, _)
MemLookup(mem, k, a, default) ==
    IF k = 0
    THEN default
    ELSE LET off == (a - mem[k].lo + Lo24) % Lo24
         IN  IF off < Len(mem[k].data)
             THEN mem[k].data[off + 1]
             ELSE MemLookup(mem, k - 1, a, default)

MemAt(d, a) == MemLookup(d.mem, Len(d.mem), a, (d.fill + a) % Byte)

\* the address bytes of a window whose first four bytes are hdr
StreamAddr(hdr) == (hdr[2] * 65536 + hdr[3] * 256 + hdr[4]) % Lo24

\* the byte the device clocks out at position p (from 1) of the window
DevByte(d, hdr, p) ==
    IF hdr[1] = Opcode_Read /\ p > 4
    THEN MemAt(d, (StreamAddr(hdr) + (p - 5)) % Lo24)
    ELSE IF hdr[1] = Opcode_ReadID /\ p > ReadIdSkip /\ p - ReadIdSkip <= Len(d.id)
    THEN d.id[p - ReadIdSkip]
    ELSE 0

\* A window win is [n |-> bytes received so far, hdr |-> the first four of them].
NoWindow == [n |-> 0, hdr |-> <<>>]
Min(a, b) == IF a < b THEN a ELSE b
Received(win, tx) ==
    [n   |-> win.n + Len(tx),
     hdr |-> win.hdr \o SubSeq(tx, 1, Min(Len(tx), 4 - Len(win.hdr)))]

Response(d, win, tx) ==
    LET hdr == Received(win, tx).hdr
    IN  [j \in 1..Len(tx) |-> DevByte(d, hdr, win.n + j)]

\* the device after it received tx in the window win
DeviceAfter(d, win, tx) ==
    LET hdr   == Received(win, tx).hdr
        first == IF win.n >= 4 THEN 1 ELSE 5 - win.n   \* first payload byte of tx
    IN  IF Len(tx) = 0
        THEN d
        ELSE IF hdr[1] = Opcode_SetBurstLength /\ win.n = 0
        THEN [d EXCEPT !.burst32 = ~@]
        ELSE IF hdr[1] = Opcode_Write /\ first <= Len(tx)
        THEN [d EXCEPT !.mem = Append(@,
                 [lo   |-> (StreamAddr(hdr) + (win.n + first - 5)) % Lo24,
                  data |-> SubSeq(tx, first, Len(tx))])]
        ELSE d

(***************************************************************************)
(* The two capabilities the driver consumes.  A machine m carries the      *)
(* line, the bus log and the fault plan of the call: the csFail-th call on *)
(* the control line and the spiFail-th transfer fail (0: none fails).      *)
(***************************************************************************)
Ev(e, ok, tx, rx) == [ev |-> e, ok |-> ok, tx |-> tx, rx |-> rx]

Machine(line, d, spiFail, csFail) ==
    [cs |-> line, win |-> NoWindow, log |-> <<>>, nspi |-> 0, ncs |-> 0,
     spiFail |-> spiFail, csFail |-> csFail, dev |-> d]

try_set_low(m) ==
    LET k  == m.ncs + 1
        ok == k /= m.csFail
    IN  [ok |-> ok,
         m  |-> [m EXCEPT !.ncs = k,
                          !.cs  = IF ok THEN "low" ELSE @,
                          !.win = IF ok THEN NoWindow ELSE @,
                          !.log = Append(@, Ev("low", ok, <<>>, <<>>))]]

try_set_high(m) ==
    LET k  == m.ncs + 1
        ok == k /= m.csFail
    IN  [ok |-> ok,
         m  |-> [m EXCEPT !.ncs = k,
                          !.cs  = IF ok THEN "high" ELSE @,
                          !.log = Append(@, Ev("high", ok, <<>>, <<>>))]]

\* a failed transfer leaves the caller's buffer as it was
try_transfer(m, bytes) ==
    LET k  == m.nspi + 1
        ok == k /= m.spiFail
        rx == IF ok THEN Response(m.dev, m.win, bytes) ELSE bytes
    IN  [ok  |-> ok,
         buf |-> rx,
         m   |-> [m EXCEPT !.nspi = k,
                           !.dev  = IF ok THEN DeviceAfter(@, m.win, bytes) ELSE @,
                           !.win  = IF ok THEN Received(@, bytes) ELSE @,
                           !.log  = Append(@, Ev("xfer", ok, bytes,
                                                 IF ok THEN rx ELSE <<>>))]]

(***************************************************************************)
(* Identification::from_bytes.                                             *)
(***************************************************************************)
\* for (index, i) in buf[2..].iter().enumerate() { bytes[index + 2] = *i; }
\* bytes is [u8; 8]: the store at index + 2 >= 8 is out of bounds and panics.
RECURSIVE FillBytes(_, _, _)
FillBytes(bytes, buf, index) ==
    IF index >= Len(buf) - 2
    THEN [panic |-> FALSE, bytes |-> bytes]
    ELSE IF index + 2 >= EidBytes
    THEN [panic |-> TRUE, bytes |-> bytes]
    ELSE FillBytes([bytes EXCEPT ![index + 3] = buf[index + 3]], buf, index + 1)

\* u64::from_be_bytes, as four 16-bit words, most significant first
from_be_bytes(bytes) ==
    [w \in 1..4 |-> bytes[2 * w - 1] * Byte + bytes[2 * w]]

NoIdent == [eid |-> <<0, 0, 0, 0>>, known_good_device |-> FALSE]

\* from_bytes without the test of the signature byte
from_bytes_any_signature(buf) ==
    IF Len(buf) < IdMinLen
    THEN [res |-> "InvalidDevice", ident |-> NoIdent]
    ELSE LET known_good == (buf[2] = KGD_Good)
             filled     == FillBytes(Zeros(EidBytes), buf, 0)
         IN  IF filled.panic
             THEN [res |-> "panic", ident |-> NoIdent]
             ELSE [res   |-> "Ok",
                   ident |-> [eid |-> from_be_bytes(filled.bytes),
                              known_good_device |-> known_good]]

from_bytes(buf) ==
    IF Len(buf) < IdMinLen
    THEN [res |-> "InvalidDevice", ident |-> NoIdent]
    ELSE IF buf[1] /= MfSignature
    THEN [res |-> "InvalidDevice", ident |-> NoIdent]
    ELSE LET known_good == (buf[2] = KGD_Good)
             filled     == FillBytes(Zeros(EidBytes), buf, 0)
         IN  IF filled.panic
             THEN [res |-> "panic", ident |-> NoIdent]
             ELSE [res   |-> "Ok",
                   ident |-> [eid |-> from_be_bytes(filled.bytes),
                              known_good_device |-> known_good]]

(***************************************************************************)
(* PSRAM: init, command, read_id.                                          *)
(***************************************************************************)
NoDriver == [live |-> FALSE, freq |-> "ThreeThree", burst_length |-> "None"]
Driver(freq, burst_length) ==
    [live |-> TRUE, freq |-> freq, burst_length |-> burst_length]

\* if freq != Freq::ThreeThree { return Err(Error::InvalidMode); }
FreqAnyUpTo84(freq) == freq \in {"ThreeThree", "EightyFour"}
FreqSupported(freq) == freq = "ThreeThree"

\* if burst_length == BurstLength::ThirtyTwoByte { send the command }
ToggleUnlessNone(burst_length) == burst_length /= "None"
ToggleAtInit(burst_length) == burst_length = "ThirtyTwoByte"

init(m, freq, burst_length) ==
    LET this == Driver(freq, burst_length)
    IN  IF ~FreqSupported(freq)
        THEN [m |-> m, res |-> "InvalidMode", this |-> NoDriver]
        ELSE IF ToggleAtInit(burst_length)
        THEN LET a == try_set_low(m)
             IN  IF ~a.ok
                 THEN [m |-> a.m, res |-> "Gpio", this |-> NoDriver]
                 ELSE LET t == try_transfer(a.m, <<Opcode_SetBurstLength>>)
                      IN  IF ~t.ok
                          THEN [m |-> t.m, res |-> "Spi", this |-> NoDriver]
                          ELSE LET h == try_set_high(t.m)
                               IN  IF ~h.ok
                                   THEN [m |-> h.m, res |-> "Gpio", this |-> NoDriver]
                                   ELSE [m |-> h.m, res |-> "Ok", this |-> this]
        ELSE [m |-> m, res |-> "Ok", this |-> this]

\* command with the transfer's error returned before the deassert
command_early_return(m, bytes) ==
    LET a == try_set_low(m)
    IN  IF ~a.ok
        THEN [m |-> a.m, res |-> "Gpio", buf |-> bytes]
        ELSE LET t == try_transfer(a.m, bytes)
             IN  IF ~t.ok
                 THEN [m |-> t.m, res |-> "Spi", buf |-> t.buf]
                 ELSE LET h == try_set_high(t.m)
                      IN  [m |-> h.m, res |-> IF h.ok THEN "Ok" ELSE "Gpio",
                           buf |-> t.buf]

\* command with the result of try_set_low dropped
command_assert_unchecked(m, bytes) ==
    LET a == try_set_low(m)
        t == try_transfer(a.m, bytes)
        h == try_set_high(t.m)
    IN  IF ~h.ok
        THEN [m |-> h.m, res |-> "Gpio", buf |-> t.buf]
        ELSE [m |-> h.m, res |-> IF t.ok THEN "Ok" ELSE "Spi", buf |-> t.buf]

command(m, bytes) ==
    LET a == try_set_low(m)
    IN  IF ~a.ok
        THEN [m |-> a.m, res |-> "Gpio", buf |-> bytes]
        ELSE LET t == try_transfer(a.m, bytes)
                 h == try_set_high(t.m)
             IN  IF ~h.ok
                 THEN [m |-> h.m, res |-> "Gpio", buf |-> t.buf]
                 ELSE [m |-> h.m, res |-> IF t.ok THEN "Ok" ELSE "Spi", buf |-> t.buf]

read_id(m) ==
    LET buf == <<Opcode_ReadID>> \o Zeros(ReadIdLen - 1)
        c   == command(m, buf)
    IN  IF c.res /= "Ok"
        THEN [m |-> c.m, res |-> c.res, ident |-> NoIdent]
        ELSE LET p == from_bytes(SubSeq(c.buf, ReadIdSkip + 1, ReadIdLen))
             IN  [m |-> c.m, res |-> p.res, ident |-> p.ident]

(***************************************************************************)
(* PSRAM: reset, set_burst.                                                *)
(***************************************************************************)
\* reset with the result of the 0x66 transfer dropped
reset_enable_unchecked(m) ==
    LET a1 == try_set_low(m)
    IN  IF ~a1.ok THEN [m |-> a1.m, res |-> "Gpio"] ELSE
        LET t1 == try_transfer(a1.m, <<Opcode_ResetEnable>>)
            h1 == try_set_high(t1.m)
        IN  IF ~h1.ok THEN [m |-> h1.m, res |-> "Gpio"] ELSE
        LET a2 == try_set_low(h1.m)
        IN  IF ~a2.ok THEN [m |-> a2.m, res |-> "Gpio"] ELSE
        LET t2 == try_transfer(a2.m, <<Opcode_Reset>>)
            h2 == try_set_high(t2.m)
        IN  IF ~h2.ok THEN [m |-> h2.m, res |-> "Gpio"]
            ELSE [m |-> h2.m, res |-> IF t2.ok THEN "Ok" ELSE "Spi"]

reset(m) ==
    LET a1 == try_set_low(m)
    IN  IF ~a1.ok THEN [m |-> a1.m, res |-> "Gpio"] ELSE
        LET t1 == try_transfer(a1.m, <<Opcode_ResetEnable>>)
        IN  IF ~t1.ok THEN [m |-> t1.m, res |-> "Spi"] ELSE
        LET h1 == try_set_high(t1.m)
        IN  IF ~h1.ok THEN [m |-> h1.m, res |-> "Gpio"] ELSE
        LET a2 == try_set_low(h1.m)
        IN  IF ~a2.ok THEN [m |-> a2.m, res |-> "Gpio"] ELSE
        LET t2 == try_transfer(a2.m, <<Opcode_Reset>>)
            h2 == try_set_high(t2.m)
        IN  IF ~h2.ok THEN [m |-> h2.m, res |-> "Gpio"]
            ELSE [m |-> h2.m, res |-> IF t2.ok THEN "Ok" ELSE "Spi"]

\* the new state is 32 and the old state is not 32, or the other way round
ToggleOnlyInto32(burst, recorded) ==
    burst = "ThirtyTwoByte" /\ recorded /= "ThirtyTwoByte"
ToggleNeeded(burst, recorded) ==
    \/ burst = "ThirtyTwoByte" /\ recorded /= "ThirtyTwoByte"
    \/ burst /= "ThirtyTwoByte" /\ recorded = "ThirtyTwoByte"

\* set_burst with self.burst_length assigned before the command is sent
set_burst_commit_first(m, this, burst) ==
    LET new == [this EXCEPT !.burst_length = burst]
    IN  IF ToggleNeeded(burst, this.burst_length)
        THEN LET a == try_set_low(m)
             IN  IF ~a.ok THEN [m |-> a.m, res |-> "Gpio", this |-> new] ELSE
                 LET t == try_transfer(a.m, <<Opcode_SetBurstLength>>)
                 IN  IF ~t.ok THEN [m |-> t.m, res |-> "Spi", this |-> new] ELSE
                 LET h == try_set_high(t.m)
                 IN  [m |-> h.m, res |-> IF h.ok THEN "Ok" ELSE "Gpio", this |-> new]
        ELSE [m |-> m, res |-> "Ok", this |-> new]

set_burst(m, this, burst) ==
    IF ToggleNeeded(burst, this.burst_length)
    THEN LET a == try_set_low(m)
         IN  IF ~a.ok THEN [m |-> a.m, res |-> "Gpio", this |-> this] ELSE
             LET t == try_transfer(a.m, <<Opcode_SetBurstLength>>)
             IN  IF ~t.ok THEN [m |-> t.m, res |-> "Spi", this |-> this] ELSE
             LET h == try_set_high(t.m)
             IN  IF ~h.ok THEN [m |-> h.m, res |-> "Gpio", this |-> this]
                 ELSE [m |-> h.m, res |-> "Ok",
                       this |-> [this EXCEPT !.burst_length = burst]]
    ELSE [m |-> m, res |-> "Ok", this |-> [this EXCEPT !.burst_length = burst]]

(***************************************************************************)
(* StorageSize.                                                            *)
(***************************************************************************)
try_start_address(m) == [m |-> m, res |-> "Ok", val |-> StartAddress]
try_total_size_64M(m) == [m |-> m, res |-> "Ok", val |-> 8 * TotalSize]
try_total_size(m) == [m |-> m, res |-> "Ok", val |-> TotalSize]
try_page_size(m) == [m |-> m, res |-> "Ok", val |-> PageSize]

(***************************************************************************)
(* MultiWrite / SingleWrite.                                               *)
(***************************************************************************)
\* buf.chunks_mut(256): the number of chunks and the c-th chunk (c from 0)
NumChunksExact(n) == n \div ChunkSize
NumChunks(n) == (n + ChunkSize - 1) \div ChunkSize
Chunk(buf, c) == SubSeq(buf, c * ChunkSize + 1, Min((c + 1) * ChunkSize, Len(buf)))
PutChunk(buf, c, chunk) ==
    [j \in 1..Len(buf) |->
        IF j > c * ChunkSize /\ j <= c * ChunkSize + Len(chunk)
        THEN chunk[j - c * ChunkSize]
        ELSE buf[j]]

\* self.cs.try_set_high().map_err(Error::Gpio)?;
\* spi_result.map(|_| ()).map_err(Error::Spi)?;
ChunkResultGpioDropped(t_ok, h_ok) == IF ~t_ok THEN "Spi" ELSE "Ok"
ChunkResultSpiDropped(t_ok, h_ok) == IF ~h_ok THEN "Gpio" ELSE "Ok"
ChunkResult(t_ok, h_ok) ==
    IF ~h_ok THEN "Gpio" ELSE IF ~t_ok THEN "Spi" ELSE "Ok"

\* One pass of the loop body for chunk c and the passes after it.
\* overflow_wraps: the build computes address + c * 256 in a 32-bit usize
\* without overflow checks; every other build panics when the sum leaves u32.
RECURSIVE WriteChunks(_, _, _, _, _)
WriteChunks(m, address, buf, c, overflow_wraps) ==
    IF c >= NumChunks(Len(buf))
    THEN [m |-> m, res |-> "Ok", buf |-> buf]
    ELSE LET sum == AddOffset(address, c * ChunkSize)
         IN  IF sum.overflow /\ ~overflow_wraps
             THEN [m |-> m, res |-> "panic", buf |-> buf]
             ELSE LET cmd_buf == CmdFrame(Opcode_Write, sum.value)
                      chunk   == Chunk(buf, c)
                      a       == try_set_low(m)
                  IN  IF ~a.ok
                      THEN [m |-> a.m, res |-> "Gpio", buf |-> buf]
                      ELSE LET t1 == try_transfer(a.m, cmd_buf)
                               t2 == IF t1.ok
                                     THEN try_transfer(t1.m, chunk)
                                     ELSE [ok |-> FALSE, buf |-> chunk, m |-> t1.m]
                               h  == try_set_high(t2.m)
                               b2 == PutChunk(buf, c, t2.buf)
                               cr == ChunkResult(t2.ok, h.ok)
                           IN  IF cr /= "Ok"
                               THEN [m |-> h.m, res |-> cr, buf |-> b2]
                               ELSE WriteChunks(h.m, address, b2, c + 1, overflow_wraps)

try_write_slice(m, address, buf, overflow_wraps) ==
    WriteChunks(m, address, buf, 0, overflow_wraps)

try_write(m, address, word, overflow_wraps) ==
    try_write_slice(m, address, <<word>>, overflow_wraps)

(***************************************************************************)
(* MultiRead / SingleRead.                                                 *)
(***************************************************************************)
\* try_read_slice with the command frame and the payload in two windows
try_read_slice_two_windows(m, address, buf) ==
    LET c == command(m, CmdFrame(Opcode_Read, address))
    IN  IF c.res /= "Ok"
        THEN [m |-> c.m, res |-> c.res, buf |-> buf]
        ELSE command(c.m, buf)

\* try_read_slice without the test `if spi_result.is_ok()`
try_read_slice_always_payload(m, address, buf) ==
    LET a == try_set_low(m)
    IN  IF ~a.ok
        THEN [m |-> a.m, res |-> "Gpio", buf |-> buf]
        ELSE LET t1 == try_transfer(a.m, CmdFrame(Opcode_Read, address))
                 t2 == try_transfer(t1.m, buf)
                 h  == try_set_high(t2.m)
             IN  IF ~h.ok
                 THEN [m |-> h.m, res |-> "Gpio", buf |-> t2.buf]
                 ELSE [m |-> h.m, res |-> IF t1.ok /\ t2.ok THEN "Ok" ELSE "Spi",
                       buf |-> t2.buf]

try_read_slice(m, address, buf) ==
    LET cmd_buf == CmdFrame(Opcode_Read, address)
        a       == try_set_low(m)
    IN  IF ~a.ok
        THEN [m |-> a.m, res |-> "Gpio", buf |-> buf]
        ELSE LET t1 == try_transfer(a.m, cmd_buf)
                 t2 == IF t1.ok
                       THEN try_transfer(t1.m, buf)
                       ELSE [ok |-> FALSE, buf |-> buf, m |-> t1.m]
                 h  == try_set_high(t2.m)
             IN  IF ~h.ok
                 THEN [m |-> h.m, res |-> "Gpio", buf |-> t2.buf]
                 ELSE [m |-> h.m, res |-> IF t2.ok THEN "Ok" ELSE "Spi", buf |-> t2.buf]

try_read(m, address) ==
    LET r == try_read_slice(m, address, <<0>>)
    IN  [m |-> r.m, res |-> r.res, buf |-> r.buf,
         val |-> IF r.res = "Ok" THEN r.buf[1] ELSE 0]

(***************************************************************************)
(* Inputs of the calls.                                                    *)
(***************************************************************************)
Addresses ==
    { Addr(0, 0), Addr(0, 4096), Addr(0, Lo24 - ChunkSize), Addr(0, Lo24 - 1),
      Addr(1, 0), Addr(18, 3430008),
      Addr(255, Lo24 - ChunkSize), Addr(255, Lo24 - 1) }

\* bases of the slices written: plain, wrapping the 24-bit field in the second
\* chunk, above the 24-bit field, leaving u32 in the second chunk
WriteAddresses ==
    { Addr(0, 4096), Addr(0, Lo24 - ChunkSize), Addr(18, 3430008),
      Addr(255, Lo24 - ChunkSize), Addr(255, Lo24 - 1) }

Lens == {0, 1, 4} \cup
        { k * ChunkSize + d : k \in 1..MaxChunks, d \in {-1, 0, 1} }

Buf(n, seed) == [j \in 1..n |-> (seed + 3 * j) % Byte]

Seeds == {17, 200}

\* the bytes the device answers after the four skipped ones
IdResponses ==
    { <<13, 93, 1, 2, 3, 4, 5, 6, 0, 0>>,
      <<13, 85, 171, 205, 239, 1, 35, 69, 0, 0>>,
      <<13, 93, 255, 255, 255, 255, 255, 255, 255, 255>>,
      <<0, 93, 1, 2, 3, 4, 5, 6, 0, 0>>,
      <<255, 255, 255, 255, 255, 255, 255, 255, 255, 255>> }

DefaultId == <<13, 93, 1, 2, 3, 4, 5, 6, 0, 0>>
\* a device in its default burst state whose memory is the fill pattern
Device(fill, id) == [fill |-> fill, id |-> id, mem |-> <<>>, burst32 |-> FALSE]

\* Fault plans <<spiFail, csFail>> of a call that makes k exchanges, each of
\* them assert, command transfer, payload transfer, deassert.  Every failure
\* ends the call after the deassert of its exchange, so at most one transfer
\* and one control-line call fail, and when both do, the control-line call
\* is the deassert (an even call) that follows the failed transfer.
FaultPlans(k) ==
    { p \in (0..(2 * k)) \X (0..(2 * k)) :
        \/ p[1] = 0
        \/ p[2] = 0
        \/ p[2] % 2 = 0 /\ p[1] \in {p[2] - 1, p[2]} }

(***************************************************************************)
(* The record of a call.                                                   *)
(***************************************************************************)
NoCall ==
    [op |-> "none", address |-> Addr(0, 0), buf_in |-> <<>>, buf_out |-> <<>>,
     freq |-> "ThreeThree", burst |-> "None", log |-> <<>>, res |-> "Ok",
     val |-> 0, ident |-> NoIdent, drv0 |-> NoDriver]

Call(op, r) ==
    [NoCall EXCEPT !.op = op, !.log = r.m.log, !.res = r.res, !.drv0 = drv]

NotWritten == [valid |-> FALSE, address |-> Addr(0, 0), buf |-> <<>>, calls |-> 0]

(***************************************************************************)
(* Actions: one per public operation, taken by the caller when no result   *)
(* is pending, and Return, by which the caller takes the result.           *)
(***************************************************************************)
Idle == last.op = "none"

DoInit ==
    /\ Idle
    /\ \E freq \in Freqs, burst \in BurstLengths, f \in FaultPlans(1) :
        LET r == init(Machine(cs, Device(0, DefaultId), f[1], f[2]), freq, burst)
        IN  /\ drv' = r.this
            /\ cs' = r.m.cs
            /\ last' = [Call("init", r) EXCEPT !.freq = freq, !.burst = burst]
    /\ UNCHANGED <<dev, written>>

DoReadId ==
    /\ Idle
    /\ drv.live
    /\ \E id \in IdResponses, f \in FaultPlans(1) :
        LET r == read_id(Machine(cs, Device(0, id), f[1], f[2]))
        IN  /\ cs' = r.m.cs
            /\ last' = [Call("read_id", r) EXCEPT !.ident = r.ident]
    /\ UNCHANGED <<drv, dev, written>>

DoReadSlice ==
    /\ Idle
    /\ drv.live
    /\ \E address \in Addresses, n \in Lens, fill \in Seeds, f \in FaultPlans(1) :
        LET buf == Buf(n, 119)
            r   == try_read_slice(Machine(cs, Device(fill, DefaultId), f[1], f[2]),
                                  address, buf)
        IN  /\ cs' = r.m.cs
            /\ last' = [Call("read_slice", r) EXCEPT !.address = address,
                            !.buf_in = buf, !.buf_out = r.buf]
    /\ UNCHANGED <<drv, dev, written>>

DoRead ==
    /\ Idle
    /\ drv.live
    /\ \E address \in Addresses, fill \in Seeds, f \in FaultPlans(1) :
        LET r == try_read(Machine(cs, Device(fill, DefaultId), f[1], f[2]), address)
        IN  /\ cs' = r.m.cs
            /\ last' = [Call("read", r) EXCEPT !.address = address,
                            !.buf_in = <<0>>, !.buf_out = r.buf, !.val = r.val]
    /\ UNCHANGED <<drv, dev, written>>

DoWriteSlice ==
    /\ Idle
    /\ drv.live
    /\ \E address \in WriteAddresses, n \in Lens, overflow_wraps \in BOOLEAN :
       \E f \in FaultPlans(NumChunks(n)) :
        LET buf == Buf(n, 119)
            r   == try_write_slice(Machine(cs, Device(0, DefaultId), f[1], f[2]),
                                   address, buf, overflow_wraps)
        IN  /\ cs' = r.m.cs
            /\ last' = [Call("write_slice", r) EXCEPT !.address = address,
                            !.buf_in = buf, !.buf_out = r.buf]
    /\ UNCHANGED <<drv, dev, written>>

DoWrite ==
    /\ Idle
    /\ drv.live
    /\ \E address \in Addresses, word \in Seeds, f \in FaultPlans(1) :
        LET r == try_write(Machine(cs, Device(0, DefaultId), f[1], f[2]),
                           address, word, FALSE)
        IN  /\ cs' = r.m.cs
            /\ last' = [Call("write", r) EXCEPT !.address = address,
                            !.buf_in = <<word>>, !.buf_out = r.buf]
    /\ UNCHANGED <<drv, dev, written>>

DoFromBytes ==
    /\ Idle
    /\ \E id \in IdResponses, n \in 0..(IdMinLen + 2) :
        LET buf == IF n <= Len(id) THEN SubSeq(id, 1, n)
                   ELSE id \o Zeros(n - Len(id))
            p   == from_bytes(buf)
        IN  last' = [NoCall EXCEPT !.op = "from_bytes", !.buf_in = buf,
                        !.res = p.res, !.ident = p.ident]
    /\ UNCHANGED <<drv, cs, dev, written>>

DoSetBurst ==
    /\ Idle
    /\ drv.live
    /\ \E burst \in BurstLengths, f \in FaultPlans(1) :
        LET r == set_burst(Machine(cs, Device(0, DefaultId), f[1], f[2]), drv, burst)
        IN  /\ drv' = r.this
            /\ cs' = r.m.cs
            /\ last' = [Call("set_burst", r) EXCEPT !.burst = burst]
    /\ UNCHANGED <<dev, written>>

DoReset ==
    /\ Idle
    /\ drv.live
    /\ \E sf \in 0..2, cf \in 0..4 :
        LET r == reset(Machine(cs, Device(0, DefaultId), sf, cf))
        IN  /\ cs' = r.m.cs
            /\ last' = Call("reset", r)
    /\ UNCHANGED <<drv, dev, written>>

DoStartAddress ==
    /\ Idle
    /\ drv.live
    /\ LET r == try_start_address(Machine(cs, Device(0, DefaultId), 0, 0))
       IN  /\ cs' = r.m.cs
           /\ last' = [Call("start_address", r) EXCEPT !.val = r.val]
    /\ UNCHANGED <<drv, dev, written>>

DoTotalSize ==
    /\ Idle
    /\ drv.live
    /\ LET r == try_total_size(Machine(cs, Device(0, DefaultId), 0, 0))
       IN  /\ cs' = r.m.cs
           /\ last' = [Call("total_size", r) EXCEPT !.val = r.val]
    /\ UNCHANGED <<drv, dev, written>>

DoPageSize ==
    /\ Idle
    /\ drv.live
    /\ LET r == try_page_size(Machine(cs, Device(0, DefaultId), 0, 0))
       IN  /\ cs' = r.m.cs
           /\ last' = [Call("page_size", r) EXCEPT !.val = r.val]
    /\ UNCHANGED <<drv, dev, written>>

Return ==
    /\ ~Idle
    /\ last' = NoCall
    /\ UNCHANGED <<drv, cs, dev, written>>

Init ==
    /\ drv = NoDriver
    /\ cs = "high"
    /\ last = NoCall
    /\ dev = Device(0, DefaultId)
    /\ written = NotWritten

Next ==
    \/ DoInit
    \/ DoReadId
    \/ DoReadSlice
    \/ DoRead
    \/ DoWriteSlice
    \/ DoWrite
    \/ DoFromBytes
    \/ DoSetBurst
    \/ DoReset
    \/ DoStartAddress
    \/ DoTotalSize
    \/ DoPageSize
    \/ Return

Spec == Init /\ [][Next]_vars

(***************************************************************************)
(* Writes and reads against one device whose memory persists from call to  *)
(* call.  The driver has been initialised (33 MHz, no burst restriction).  *)
(***************************************************************************)
\* two bases whose slices overlap from the second chunk on
StoreAddresses == { Addr(0, 4096), Addr(0, 4096 + ChunkSize) }

StoreLens == {1} \cup { k * ChunkSize + 1 : k \in 1..MaxChunks }

\* no failure, or the payload transfer of the first chunk fails
StoreFaults == { <<0, 0>>, <<2, 0>> }

StoreWriteSlice ==
    /\ Idle
    /\ drv.live
    /\ written.calls < MaxWrites
    /\ \E address \in StoreAddresses, n \in StoreLens, seed \in Seeds,
          f \in StoreFaults :
        LET buf == Buf(n, seed)
            r   == try_write_slice(Machine(cs, dev, f[1], f[2]), address, buf, FALSE)
        IN  /\ cs' = r.m.cs
            /\ dev' = r.m.dev
            /\ written' = [valid   |-> r.res = "Ok",
                           address |-> IF r.res = "Ok" THEN address ELSE Addr(0, 0),
                           buf     |-> IF r.res = "Ok" THEN buf ELSE <<>>,
                           calls   |-> written.calls + 1]
            /\ last' = [Call("write_slice", r) EXCEPT !.address = address,
                            !.buf_in = buf, !.buf_out = r.buf]
    /\ UNCHANGED drv

StoreReadSlice ==
    /\ Idle
    /\ drv.live
    /\ \E address \in StoreAddresses, n \in StoreLens, f \in StoreFaults :
        LET buf == Buf(n, 119)
            r   == try_read_slice(Machine(cs, dev, f[1], f[2]), address, buf)
        IN  /\ cs' = r.m.cs
            /\ dev' = r.m.dev
            /\ last' = [Call("read_slice", r) EXCEPT !.address = address,
                            !.buf_in = buf, !.buf_out = r.buf]
    /\ UNCHANGED <<drv, written>>

InitStore ==
    /\ drv = Driver("ThreeThree", "None")
    /\ cs = "high"
    /\ last = NoCall
    /\ dev = Device(0, DefaultId)
    /\ written = NotWritten

NextStore ==
    \/ StoreWriteSlice
    \/ StoreReadSlice
    \/ Return

SpecStore == InitStore /\ [][NextStore]_vars

(***************************************************************************)
(* init and set_burst against one device whose burst state persists from   *)
(* call to call: the device starts in its default state, init is called    *)
(* while the device is still in that state, set_burst follows.             *)
(***************************************************************************)
BurstInit ==
    /\ Idle
    /\ ~drv.live
    /\ dev = Device(0, DefaultId)
    /\ \E freq \in Freqs, burst \in BurstLengths, f \in FaultPlans(1) :
        LET r == init(Machine(cs, dev, f[1], f[2]), freq, burst)
        IN  /\ drv' = r.this
            /\ cs' = r.m.cs
            /\ dev' = r.m.dev
            /\ last' = [Call("init", r) EXCEPT !.freq = freq, !.burst = burst]
    /\ UNCHANGED written

BurstSetBurst ==
    /\ Idle
    /\ drv.live
    /\ \E burst \in BurstLengths, f \in FaultPlans(1) :
        LET r == set_burst(Machine(cs, dev, f[1], f[2]), drv, burst)
        IN  /\ drv' = r.this
            /\ cs' = r.m.cs
            /\ dev' = r.m.dev
            /\ last' = [Call("set_burst", r) EXCEPT !.burst = burst]
    /\ UNCHANGED written

NextBurst ==
    \/ BurstInit
    \/ BurstSetBurst
    \/ Return

SpecBurst == Init /\ [][NextBurst]_vars

(***************************************************************************)
(* Vocabulary of the properties: the bus log of the pending result.        *)
(***************************************************************************)
Log == last.log
LowAt(i) == Log[i].ev = "low"
HighAt(i) == Log[i].ev = "high"
XferAt(i) == Log[i].ev = "xfer"
Asserted == \E i \in 1..Len(Log) : LowAt(i) /\ Log[i].ok
XferFailed == \E i \in 1..Len(Log) : XferAt(i) /\ ~Log[i].ok
HighFailed == \E i \in 1..Len(Log) : HighAt(i) /\ ~Log[i].ok
Xfers == { i \in 1..Len(Log) : XferAt(i) }

\* the three address bytes of the low 24 bits x of an address
AddrBytes(x) == << x \div 65536, (x \div 256) % 256, x % 256 >>

(***************************************************************************)
(* C1: in read_slice/read, write_slice/write and read_id, every successful *)
(* assert of the control line is followed, after the transfers of that     *)
(* exchange and whatever their outcome, by a deassert call before the      *)
(* operation returns; the line is high at return unless that deassert call *)
(* itself failed.                                                          *)
(***************************************************************************)
C1_ReleasedAfterAssert ==
    last.op \in {"read_slice", "read", "write_slice", "write", "read_id"} =>
        /\ \A i \in 1..Len(Log) :
              (LowAt(i) /\ Log[i].ok) =>
                 \E j \in (i + 1)..Len(Log) :
                    /\ HighAt(j)
                    /\ \A k \in (i + 1)..(j - 1) : XferAt(k)
        /\ (Asserted /\ ~HighFailed) => cs = "high"

C1_Witness ==
    /\ last.op = "read_id"
    /\ Asserted
    /\ XferFailed
    /\ last.res = "Spi"
    /\ cs = "high"

(***************************************************************************)
(* C2: init(33 MHz, 32-byte): when the transfer of the burst-length toggle *)
(* fails, the control line init asserted is deasserted before init returns *)
(* the transport error.                                                    *)
(***************************************************************************)
C2_InitReleasesOnTransferFailure ==
    ( /\ last.op = "init"
      /\ last.freq = "ThreeThree"
      /\ last.burst = "ThirtyTwoByte"
      /\ Asserted
      /\ XferFailed ) =>
        /\ last.res = "Spi"
        /\ \E j \in 1..Len(Log) : HighAt(j)
        /\ cs = "high"
(***************************************************************************)
(* C3: a fully successful write_slice of n bytes at a issues exactly       *)
(* ceil(n/256) write exchanges in increasing chunk order; exchange i is    *)
(* assert, the command [0x02, bits 23:16, 15:8, 7:0 of a + 256*i], the     *)
(* payload of exactly chunk i's bytes, deassert; every chunk but the last  *)
(* has 256 bytes, the last n mod 256 (256 when n is a multiple of 256).    *)
(***************************************************************************)
Ceil256(n) == CHOOSE k \in 0..(n + 1) : k * 256 >= n /\ (k = 0 \/ (k - 1) * 256 < n)
LastSize(n) == IF n % 256 = 0 THEN 256 ELSE n % 256

\* the four events of a fully successful exchange of chunk i of the call
ChunkExchangeAt(i) ==
    LET n    == Len(last.buf_in)
        size == IF i < Ceil256(n) - 1 THEN 256 ELSE LastSize(n)
        e    == 4 * i
    IN  /\ LowAt(e + 1) /\ Log[e + 1].ok
        /\ XferAt(e + 2) /\ Log[e + 2].ok
        /\ Log[e + 2].tx = <<2>> \o AddrBytes((last.address.lo + 256 * i) % 16777216)
        /\ XferAt(e + 3) /\ Log[e + 3].ok
        /\ Log[e + 3].tx = SubSeq(last.buf_in, 256 * i + 1, 256 * i + size)
        /\ Len(Log[e + 3].tx) = size
        /\ HighAt(e + 4) /\ Log[e + 4].ok

C3_WriteChunking ==
    (last.op = "write_slice" /\ last.res = "Ok") =>
        LET k == Ceil256(Len(last.buf_in))
        IN  /\ Len(Log) = 4 * k
            /\ \A i \in 0..(k - 1) : ChunkExchangeAt(i)

C3_Witness ==
    /\ last.op = "write_slice"
    /\ last.res = "Ok"
    /\ Len(last.buf_in) = 513
    /\ Len(Log) = 12
    /\ Len(Log[11].tx) = 1

(***************************************************************************)
(* C4: address framing wraps to 24 bits for every u32 address: read_slice  *)
(* at a transmits the three bytes of a mod 2^24, write_slice transmits for *)
(* chunk i the three bytes of (a + 256*i) mod 2^24, also when a >= 2^24    *)
(* and when a + 256*i exceeds 2^32 - 1, and the operation completes with a *)
(* result value in every such case.                                        *)
(***************************************************************************)
\* the command transfers of the log: the transfer that follows an assert
CmdXfers == { i \in 2..Len(Log) : XferAt(i) /\ LowAt(i - 1) }
ChunkOf(i) == Cardinality({ j \in 1..(i - 1) : LowAt(j) }) - 1

C4_FramingWrapsAndCompletes ==
    /\ last.op \in {"read_slice", "read"} =>
          /\ last.res /= "panic"
          /\ \A i \in CmdXfers :
                Log[i].tx = <<3>> \o AddrBytes(last.address.lo)
    /\ last.op \in {"write_slice", "write"} =>
          /\ last.res /= "panic"
          /\ \A i \in CmdXfers :
                Log[i].tx = <<2>> \o
                    AddrBytes((last.address.lo + 256 * ChunkOf(i)) % 16777216)

(***************************************************************************)
(* C5: read_slice(a, buf) performs, inside a single assertion of the       *)
(* control line, exactly one command transfer of [0x03, a[23:16], a[15:8], *)
(* a[7:0]] followed by exactly one payload transfer over the whole caller  *)
(* buffer (never split), and read(a) returns the single byte read_slice    *)
(* obtained in a 1-byte buffer.  Under failures the bus activity is a      *)
(* prefix of that exchange (plus the deassert).                            *)
(***************************************************************************)
C5_ReadSingleExchange ==
    last.op \in {"read_slice", "read"} =>
        LET cmd == <<3>> \o AddrBytes(last.address.lo)
        IN  /\ Len(Log) >= 1 /\ LowAt(1)
            /\ Cardinality({ i \in 1..Len(Log) : LowAt(i) }) = 1
            /\ Cardinality(Xfers) <= 2
            /\ \A i \in Xfers :
                  /\ i \in {2, 3}
                  /\ Log[1].ok
                  /\ i = 2 => Log[i].tx = cmd
                  /\ i = 3 => XferAt(2) /\ Log[2].ok /\ Log[i].tx = last.buf_in
            /\ \A i \in 1..Len(Log) : HighAt(i) => i = Len(Log)
            /\ last.res = "Ok" =>
                  /\ Len(Log) = 4
                  /\ XferAt(2) /\ XferAt(3) /\ HighAt(4)
                  /\ \A i \in 1..4 : Log[i].ok
                  /\ Len(Log[3].tx) = Len(last.buf_in)
                  /\ last.buf_out = Log[3].rx
            /\ last.op = "read" =>
                  /\ last.buf_in = <<0>>
                  /\ last.res = "Ok" => last.val = Log[3].rx[1]

C5_Witness ==
    /\ last.op = "read_slice"
    /\ last.res = "Ok"
    /\ Len(last.buf_in) = 513
    /\ last.address = Addr(0, 4096)
    /\ Log[2].tx = <<3, 0, 16, 0>>
    /\ last.buf_out /= last.buf_in

(***************************************************************************)
(* C6 as stated: in read_slice, if the command transfer fails then no      *)
(* payload transfer is performed, the caller's buffer is unmodified, the   *)
(* control line is deasserted and the transport error is returned.         *)
(***************************************************************************)
CmdTransferFailed == Len(Log) >= 2 /\ XferAt(2) /\ ~Log[2].ok

C6_CommandFailureAsStated ==
    (last.op = "read_slice" /\ CmdTransferFailed) =>
        /\ Cardinality(Xfers) = 1
        /\ last.buf_out = last.buf_in
        /\ cs = "high"
        /\ last.res = "Spi"

(***************************************************************************)
(* C6 amended: in read_slice, if the command transfer fails then no        *)
(* payload transfer is performed, the caller's buffer is unmodified and    *)
(* the deassert is called; when the deassert succeeds the line is          *)
(* deasserted and the transport error is returned, and when the deassert   *)
(* fails too the control-line error is returned.                           *)
(***************************************************************************)
C6_CommandFailure ==
    (last.op = "read_slice" /\ CmdTransferFailed) =>
        /\ Cardinality(Xfers) = 1
        /\ last.buf_out = last.buf_in
        /\ Len(Log) = 3 /\ HighAt(3)
        /\ Log[3].ok => (cs = "high" /\ last.res = "Spi")
        /\ ~Log[3].ok => last.res = "Gpio"

C6_Witness ==
    /\ last.op = "read_slice"
    /\ CmdTransferFailed
    /\ Len(last.buf_in) = 4
    /\ last.res = "Spi"
    /\ cs = "high"

(***************************************************************************)
(* C7: in a write_slice, if a call of the exchange of chunk k fails (the   *)
(* assert, the command transfer, the payload transfer or the deassert),    *)
(* the operation returns one error at once: chunks 0..k-1 were each        *)
(* transmitted in full exactly once, in order, nothing follows the failed  *)
(* call but the deassert of chunk k's own exchange, and no chunk after k   *)
(* sees any bus activity.                                                  *)
(***************************************************************************)
SomeCallFailed == \E i \in 1..Len(Log) : ~Log[i].ok
FirstFail == CHOOSE i \in 1..Len(Log) : ~Log[i].ok /\ \A j \in 1..(i - 1) : Log[j].ok
\* the chunk whose exchange holds event f
FailedChunk(f) == Cardinality({ j \in 1..f : LowAt(j) }) - 1

C7_WriteAbortsAtFailedChunk ==
    (last.op = "write_slice" /\ SomeCallFailed) =>
        LET f == FirstFail
            k == FailedChunk(f)
        IN  /\ last.res \in {"Spi", "Gpio"}
            /\ last.res = "Spi" <=> (XferAt(f) /\ Len(Log) = f + 1 /\ Log[f + 1].ok)
            /\ \A i \in 0..(k - 1) : ChunkExchangeAt(i)
            /\ 4 * k < f /\ f <= 4 * k + 4
            /\ LowAt(4 * k + 1)
            /\ Cardinality({ j \in 1..Len(Log) : LowAt(j) }) = k + 1
            /\ Len(Log) <= f + 1
            /\ Len(Log) = f + 1 => (XferAt(f) /\ HighAt(f + 1))
            /\ XferAt(f) => Len(Log) = f + 1

C7_Witness ==
    /\ last.op = "write_slice"
    /\ Len(last.buf_in) = 513
    /\ SomeCallFailed
    /\ FailedChunk(FirstFail) = 1
    /\ XferAt(FirstFail) /\ FirstFail = 7
    /\ last.res = "Spi"

(***************************************************************************)
(* C8: init with a frequency class other than 33 MHz returns the           *)
(* invalid-mode error for every burst length, and produces no driver.      *)
(***************************************************************************)
C8_InitRejectsOtherFrequencies ==
    (last.op = "init" /\ last.freq /= "ThreeThree") =>
        /\ last.res = "InvalidMode"
        /\ ~drv.live

C8_Witness ==
    /\ last.op = "init"
    /\ last.freq = "EightyFour"
    /\ last.burst = "ThirtyTwoByte"
    /\ last.res = "InvalidMode"
    /\ ~drv.live

(***************************************************************************)
(* C9: init performs one burst-length-toggle exchange (assert, the single  *)
(* byte 0xC0, deassert) when the frequency is 33 MHz and the burst mode is *)
(* 32-byte, and no control-line or transfer activity in every other case;  *)
(* on success the driver records the requested frequency and burst mode.   *)
(***************************************************************************)
C9_InitToggleOnce ==
    last.op = "init" =>
        /\ (last.freq = "ThreeThree" /\ last.burst = "ThirtyTwoByte") =>
              /\ Len(Log) >= 1 /\ LowAt(1)
              /\ Cardinality({ i \in 1..Len(Log) : LowAt(i) }) = 1
              /\ Cardinality(Xfers) <= 1
              /\ \A i \in Xfers : i = 2 /\ Log[1].ok /\ Log[i].tx = <<192>>
              /\ \A i \in 1..Len(Log) : HighAt(i) => (i = 3 /\ XferAt(2))
              /\ last.res = "Ok" <=> (Len(Log) = 3 /\ \A i \in 1..3 : Log[i].ok)
        /\ ~(last.freq = "ThreeThree" /\ last.burst = "ThirtyTwoByte") =>
              Log = <<>>
        /\ last.res = "Ok" =>
              drv = [live |-> TRUE, freq |-> last.freq, burst_length |-> last.burst]

C9_Witness ==
    /\ last.op = "init"
    /\ last.freq = "ThreeThree"
    /\ last.burst = "ThirtyTwoByte"
    /\ last.res = "Ok"
    /\ Len(Log) = 3
    /\ drv.live /\ drv.burst_length = "ThirtyTwoByte"

(***************************************************************************)
(* C10: identification parsing succeeds on a well-formed response: when    *)
(* the 10 bytes left after read_id skips 4 begin with 0x0D, read_id        *)
(* returns an Identification whose known_good_device is true exactly when  *)
(* the second byte is 0x5D and whose eid is the big-endian value of the    *)
(* next 6 bytes, the upper 16 bits being zero.                             *)
(***************************************************************************)
C10_ParsesWellFormedResponse ==
    ( /\ last.op = "read_id"
      /\ Len(Log) = 3
      /\ \A i \in 1..3 : Log[i].ok
      /\ Log[2].rx[5] = 13 ) =>
        LET rx == Log[2].rx
        IN  /\ last.res = "Ok"
            /\ last.ident.known_good_device = (rx[6] = 93)
            /\ last.ident.eid = << 0,
                                   rx[7] * 256 + rx[8],
                                   rx[9] * 256 + rx[10],
                                   rx[11] * 256 + rx[12] >>

(***************************************************************************)
(* C11: from_bytes returns InvalidDevice for every buffer shorter than 10   *)
(* bytes and for every buffer whose first byte is not 0x0D; read_id         *)
(* returns that error after its single exchange of 14 bytes, 0x9F followed  *)
(* by 13 filler bytes, when the byte after the 4 skipped ones is not 0x0D.  *)
(***************************************************************************)
C11_RejectsShortOrUnsigned ==
    /\ ( /\ last.op = "from_bytes"
         /\ (Len(last.buf_in) < 10 \/ last.buf_in[1] /= 13) ) =>
            last.res = "InvalidDevice"
    /\ ( /\ last.op = "read_id"
         /\ \A i \in 1..Len(Log) : Log[i].ok
         /\ Log[2].rx[5] /= 13 ) =>
            /\ last.res = "InvalidDevice"
            /\ Len(Log) = 3
            /\ LowAt(1) /\ XferAt(2) /\ HighAt(3)
            /\ Len(Log[2].tx) = 14
            /\ Log[2].tx[1] = 159
            /\ Len(Log[2].rx) = 14

C11_Witness ==
    /\ last.op = "read_id"
    /\ Len(Log) = 3
    /\ \A i \in 1..3 : Log[i].ok
    /\ Log[2].rx[5] /= 13
    /\ last.res = "InvalidDevice"

(***************************************************************************)
(* C12: error attribution in read_slice/read, write_slice/write and the     *)
(* command exchange of read_id: a returned transport error means a         *)
(* transfer failed, a returned control-line error means an assert or a     *)
(* deassert failed; when exactly one call failed the result is the error of *)
(* that call; a failed deassert after transfers that all succeeded gives   *)
(* the control-line error; success is returned only when no call failed.   *)
(***************************************************************************)
Fails == { i \in 1..Len(Log) : ~Log[i].ok }
PinFailed == \E i \in Fails : LowAt(i) \/ HighAt(i)

C12_ErrorAttribution ==
    last.op \in {"read_slice", "read", "write_slice", "write", "read_id"} =>
        /\ last.res = "Spi" => XferFailed
        /\ last.res = "Gpio" => PinFailed
        /\ \A i \in Fails :
              Fails = {i} => last.res = IF XferAt(i) THEN "Spi" ELSE "Gpio"
        /\ (HighFailed /\ ~XferFailed) => last.res = "Gpio"
        /\ last.res = "Ok" => Fails = {}

C12_Witness ==
    /\ last.op = "write_slice"
    /\ Len(last.buf_in) > 256
    /\ HighFailed
    /\ ~XferFailed
    /\ \E i \in Xfers : Len(Log[i].tx) > 4
    /\ last.res = "Gpio"

(***************************************************************************)
(* C13: round trip.  Against a device that stores the written payload      *)
(* bytes at the addressed locations and returns them on read, a successful *)
(* read_slice of n bytes at a that follows a successful write_slice of n    *)
(* bytes at a returns exactly the bytes that were written, n > 256          *)
(* included.                                                               *)
(***************************************************************************)
C13_RoundTrip ==
    ( /\ last.op = "read_slice"
      /\ last.res = "Ok"
      /\ written.valid
      /\ last.address = written.address
      /\ Len(last.buf_in) = Len(written.buf) ) =>
        last.buf_out = written.buf

C13_Witness ==
    /\ last.op = "read_slice"
    /\ last.res = "Ok"
    /\ written.valid
    /\ last.address = written.address
    /\ Len(written.buf) = 2 * ChunkSize + 1
    /\ last.buf_out = written.buf
    /\ last.buf_out /= last.buf_in

(***************************************************************************)
(* C14: the geometry queries return start address 0, total size 8,388,608  *)
(* bytes and page size 1,024 bytes; they never fail, make no control-line  *)
(* call and no transfer, and leave the driver's frequency class and        *)
(* burst-length mode as they were.                                         *)
(***************************************************************************)
C14_GeometryConstants ==
    last.op \in {"start_address", "total_size", "page_size"} =>
        /\ last.res = "Ok"
        /\ last.op = "start_address" => last.val = 0
        /\ last.op = "total_size" => last.val = 8388608
        /\ last.op = "page_size" => last.val = 1024
        /\ Log = <<>>
        /\ drv = last.drv0

C14_Witness ==
    /\ last.op = "total_size"
    /\ last.val = 8388608
    /\ last.res = "Ok"
    /\ drv.live
    /\ drv.burst_length = "ThirtyTwoByte"

(***************************************************************************)
(* C15: set_burst(new) makes bus activity exactly when one of the recorded  *)
(* mode and new is the 32-byte mode and the other is not: it then asserts   *)
(* the line and, the assert succeeding, sends the single byte 0xC0 once,    *)
(* then deasserts; in every other case the log of the call is empty.        *)
(***************************************************************************)
C15_ToggleExactlyWhenCrossing32 ==
    last.op = "set_burst" =>
        LET crossing == (last.drv0.burst_length = "ThirtyTwoByte")
                            /= (last.burst = "ThirtyTwoByte")
        IN  IF crossing
            THEN /\ Len(Log) \in 1..3
                 /\ LowAt(1)
                 /\ Log[1].ok => Len(Log) >= 2
                 /\ Len(Log) >= 2 => XferAt(2) /\ Log[2].tx = <<192>>
                 /\ Len(Log) >= 3 => HighAt(3)
                 /\ last.res = "Ok" => Len(Log) = 3
            ELSE /\ Log = <<>>
                 /\ last.res = "Ok"

C15_Witness ==
    /\ last.op = "set_burst"
    /\ last.drv0.burst_length = "ThirtyTwoByte"
    /\ last.burst = "OneKByte"
    /\ Len(Log) = 3
    /\ Log[2].tx = <<192>>
    /\ last.res = "Ok"

(***************************************************************************)
(* C16: set_burst commits after confirmation: the recorded mode is the new  *)
(* mode when set_burst returns success, and whenever set_burst returns an   *)
(* error (assert, toggle transfer or deassert failed) the recorded mode is  *)
(* what it was before the call.                                            *)
(***************************************************************************)
C16_CommitOnSuccessOnly ==
    last.op = "set_burst" =>
        /\ last.res = "Ok" => drv = [last.drv0 EXCEPT !.burst_length = last.burst]
        /\ last.res /= "Ok" => drv = last.drv0

C16_Witness ==
    /\ last.op = "set_burst"
    /\ last.drv0.burst_length = "None"
    /\ last.burst = "ThirtyTwoByte"
    /\ HighFailed
    /\ last.res = "Gpio"
    /\ drv.burst_length = "None"

(***************************************************************************)
(* C18: reset issues reset-enable 0x66 and then reset 0x99, one byte each,  *)
(* each in its own assertion of the control line; 0x99 is attempted only    *)
(* when the 0x66 exchange completed without error; when the 0x66 exchange   *)
(* succeeded and the 0x99 transfer fails, reset returns the transport       *)
(* error; reset returns success only when both exchanges succeeded.         *)
(***************************************************************************)
\* the log of a reset is a prefix of the two exchanges
ResetShape ==
    /\ Len(Log) <= 6
    /\ \A i \in 1..Len(Log) :
          /\ i \in {1, 4} => LowAt(i)
          /\ i = 2 => XferAt(i) /\ Log[i].tx = <<102>>
          /\ i = 5 => XferAt(i) /\ Log[i].tx = <<153>>
          /\ i \in {3, 6} => HighAt(i)
    /\ Len(Log) >= 4 => \A i \in 1..3 : Log[i].ok
    /\ last.res = "Ok" => Len(Log) = 6 /\ Fails = {}

SecondTransferFailed ==
    /\ Len(Log) >= 5
    /\ \A i \in 1..4 : Log[i].ok
    /\ ~Log[5].ok

C18_ResetAsStated ==
    last.op = "reset" =>
        /\ ResetShape
        /\ SecondTransferFailed => last.res = "Spi"

\* C18 as the code has it: the transport error of the 0x99 transfer is
\* returned when the deassert after it succeeds; when that deassert fails
\* too, the control-line error is returned.
C18_Reset ==
    last.op = "reset" =>
        /\ ResetShape
        /\ SecondTransferFailed =>
              /\ Len(Log) = 6
              /\ last.res = IF Log[6].ok THEN "Spi" ELSE "Gpio"

C18_Witness ==
    /\ last.op = "reset"
    /\ SecondTransferFailed
    /\ Len(Log) = 6
    /\ ~Log[6].ok
    /\ last.res = "Gpio"

(***************************************************************************)
(* C19: in set_burst and in both exchanges of reset the control line is     *)
(* deasserted before the call returns, even when the transfer of the        *)
(* exchange failed: after a call of set_burst or reset that asserted the    *)
(* line, the line is not left asserted.                                    *)
(***************************************************************************)
C19_ReleasedInSetBurstAndReset ==
    ( /\ last.op \in {"set_burst", "reset"}
      /\ Asserted ) =>
        /\ \A i \in 1..Len(Log) :
              (LowAt(i) /\ Log[i].ok) =>
                 \E j \in (i + 1)..Len(Log) : HighAt(j)
        /\ ~HighFailed => cs = "high"

(***************************************************************************)
(* C20: order of the bus events of every operation: each transfer follows   *)
(* a successful assert of the same call with nothing but transfers in       *)
(* between; a failed assert is the last event of its call, which returns    *)
(* the control-line error; in write_slice/write every assertion window      *)
(* holds the command transfer and then the payload transfer of one chunk,   *)
(* and every assert after the first directly follows a deassert.            *)
(***************************************************************************)
C20_BusEventOrder ==
    last.op /= "none" =>
        /\ \A i \in Xfers :
              \E j \in 1..(i - 1) :
                 /\ LowAt(j) /\ Log[j].ok
                 /\ \A k \in (j + 1)..(i - 1) : XferAt(k)
        /\ \A i \in 1..Len(Log) :
              (LowAt(i) /\ ~Log[i].ok) => i = Len(Log) /\ last.res = "Gpio"
        /\ last.op \in {"write_slice", "write"} =>
              /\ \A i \in Xfers :
                    \/ LowAt(i - 1) /\ Len(Log[i].tx) = 4 /\ Log[i].tx[1] = 2
                    \/ XferAt(i - 1) /\ LowAt(i - 2)
              /\ \A i \in 2..Len(Log) : LowAt(i) => HighAt(i - 1)

C20_Witness ==
    /\ last.op = "write_slice"
    /\ Len(last.buf_in) = 2 * ChunkSize + 1
    /\ last.res = "Ok"
    /\ Len(Log) = 12
    /\ HighAt(4) /\ LowAt(5) /\ XferAt(6) /\ XferAt(7)
    /\ HighAt(8) /\ LowAt(9)

(***************************************************************************)
(* C17: burst-mode synchronisation.  The device starts in its default       *)
(* (not 32-byte) state and flips its burst state on every 0xC0 it receives  *)
(* over a successful transfer; after a successful init and any sequence of  *)
(* set_burst calls, failing ones included, the driver records the 32-byte   *)
(* mode exactly when the device is in its 32-byte state.                    *)
(***************************************************************************)
C17_BurstSync ==
    drv.live => ((drv.burst_length = "ThirtyTwoByte") <=> dev.burst32)
====
